---- MODULE Spec2Model ----
(***************************************************************************)
(* packet-networking: Builder (builder.py) and DistroBuilder               *)
(* (distros/distro_builder.py) as state machines.                          *)
(*                                                                         *)
(* Python values are modelled as follows.                                  *)
(*   - None is the string "None" (NoneV).                                  *)
(*   - A dict is a sequence of [k, v] records with distinct keys, in       *)
(*     insertion order (Python dicts keep insertion order and run()        *)
(*     processes tasks in that order).                                     *)
(*   - A path is a sequence of names; the target root is Root.             *)
(*   - Text is a sequence of string atoms; writing appends atoms.          *)
(***************************************************************************)
EXTENDS Integers, Sequences, FiniteSets, TLC

\* ------------------------------------------------------------------ bounds
\* how many network builders a distro builder class may list
MaxNB == 2
\* how many tasks the network builder of a filesystem scenario may define
MaxFsTasks == 2
\* how many times build() may be called on one DistroBuilder instance
MaxBuilds == 1
\* how many symbolic links one path lookup follows before giving up
MaxSymlinks == 3
\* how many times run() may be called
MaxRuns == 2

NoneV == "None"

\* ------------------------------------------------------- Python dict helpers
DictKeys(d) == {d[i].k : i \in 1..Len(d)}

DictHas(d, key) == key \in DictKeys(d)

DictGet(d, key) == d[CHOOSE i \in 1..Len(d) : d[i].k = key].v

\* d[key] = val : an existing key keeps its position, a new key goes last
DictSet(d, key, val) ==
    IF DictHas(d, key)
    THEN [i \in 1..Len(d) |-> IF d[i].k = key THEN [k |-> key, v |-> val] ELSE d[i]]
    ELSE Append(d, [k |-> key, v |-> val])

\* d.update(e)
RECURSIVE DictUpdate(_, _)
DictUpdate(d, e) ==
    IF e = <<>> THEN d
    ELSE DictUpdate(DictSet(d, Head(e).k, Head(e).v), Tail(e))

IsPrefix(p, q) == Len(p) <= Len(q) /\ SubSeq(q, 1, Len(p)) = p

\* ------------------------------------------------------------- filesystem
\* The host filesystem is a function from the paths that exist to nodes.
\* <<>> is the host's "/", always a directory.  A symbolic link holds its
\* target text: absolute (abs = TRUE, target is a host path) or relative
\* (abs = FALSE; every relative link of the model sits directly under Root,
\* so its target names the path Root \o target).
Root == <<"r">>

NFile(c, m) == [kind |-> "file", content |-> c, mode |-> m, abs |-> FALSE, target |-> <<>>]
NDir == [kind |-> "dir", content |-> <<>>, mode |-> 0, abs |-> FALSE, target |-> <<>>]
NLink(a, t) == [kind |-> "link", content |-> <<>>, mode |-> 0, abs |-> a, target |-> t]

\* permission bits of a file that open() creates (0o666 under umask 0o022)
DefaultMode == 420

FsPut(fs, p, node) == [q \in DOMAIN fs \cup {p} |-> IF q = p THEN node ELSE fs[q]]
FsDel(fs, p) == [q \in DOMAIN fs \ {p} |-> fs[q]]

\* where the operating system takes a link
LinkDest(node) == IF node.abs THEN node.target ELSE Root \o node.target

\* The operating system's path lookup: cur is the directory reached so far,
\* rest the components left.  The last component is followed only when
\* followLast.  Yields the real path (whose last component may not exist).
RECURSIVE KWalk(_, _, _, _, _)
KWalk(fs, cur, rest, followLast, fuel) ==
    IF rest = <<>> THEN [ok |-> TRUE, path |-> cur, err |-> ""]
    ELSE LET next == Append(cur, Head(rest))
             last == Len(rest) = 1
         IN IF next \notin DOMAIN fs
            THEN IF last THEN [ok |-> TRUE, path |-> next, err |-> ""]
                 ELSE [ok |-> FALSE, path |-> next, err |-> "ENOENT"]
            ELSE IF fs[next].kind = "link"
            THEN IF last /\ ~followLast THEN [ok |-> TRUE, path |-> next, err |-> ""]
                 ELSE IF fuel = 0 THEN [ok |-> FALSE, path |-> next, err |-> "ELOOP"]
                 ELSE KWalk(fs, <<>>, LinkDest(fs[next]) \o Tail(rest), followLast, fuel - 1)
            ELSE IF fs[next].kind = "file"
            THEN IF last THEN [ok |-> TRUE, path |-> next, err |-> ""]
                 ELSE [ok |-> FALSE, path |-> next, err |-> "ENOTDIR"]
            ELSE KWalk(fs, next, Tail(rest), followLast, fuel)

\* os.path.lexists(p): something is at p, a dangling symbolic link included
lexists(fs, p) ==
    LET w == KWalk(fs, <<>>, p, FALSE, MaxSymlinks)
    IN w.ok /\ (w.path = <<>> \/ w.path \in DOMAIN fs)

\* The outcome of a filesystem call: the filesystem after it, the real paths
\* it changed, and the error it raised ("" when none).
FsOk(fs, touched) == [fs |-> fs, touched |-> touched, err |-> ""]
FsErr(fs, e) == [fs |-> fs, touched |-> {}, err |-> e]

\* os.remove(p): unlinks the entry p names, never following p's last component
os_remove(fs, p) ==
    LET w == KWalk(fs, <<>>, p, FALSE, MaxSymlinks)
    IN IF ~w.ok THEN FsErr(fs, w.err)
       ELSE IF w.path \notin DOMAIN fs THEN FsErr(fs, "ENOENT")
       ELSE IF fs[w.path].kind = "dir" THEN FsErr(fs, "EISDIR")
       ELSE FsOk(FsDel(fs, w.path), {w.path})

\* os.makedirs(p, exist_ok=True): creates every missing directory of p
RECURSIVE MkWalk(_, _, _, _, _)
MkWalk(fs, cur, rest, fuel, touched) ==
    IF rest = <<>> THEN FsOk(fs, touched)
    ELSE LET next == Append(cur, Head(rest))
         IN IF next \notin DOMAIN fs
            THEN MkWalk(FsPut(fs, next, NDir), next, Tail(rest), fuel, touched \cup {next})
            ELSE IF fs[next].kind = "link"
            THEN IF fuel = 0 THEN [fs |-> fs, touched |-> touched, err |-> "ELOOP"]
                 ELSE MkWalk(fs, <<>>, LinkDest(fs[next]) \o Tail(rest), fuel - 1, touched)
            ELSE IF fs[next].kind = "file"
            THEN [fs |-> fs, touched |-> touched, err |-> "EEXIST"]
            ELSE MkWalk(fs, next, Tail(rest), fuel, touched)

os_makedirs(fs, p) == MkWalk(fs, <<>>, p, MaxSymlinks, {})

\* with open(p, file_mode) as f: f.write(content)
\* "w" truncates, "a" appends; a new file gets DefaultMode, an existing file
\* keeps its permission bits.  p's last component is followed.
open_write(fs, p, file_mode, content) ==
    LET w == KWalk(fs, <<>>, p, TRUE, MaxSymlinks)
    IN IF ~w.ok THEN FsErr(fs, w.err)
       ELSE IF w.path \notin DOMAIN fs
       THEN FsOk(FsPut(fs, w.path, NFile(content, DefaultMode)), {w.path})
       ELSE IF fs[w.path].kind # "file" THEN FsErr(fs, "EISDIR")
       ELSE IF file_mode = "a"
       THEN FsOk(FsPut(fs, w.path, NFile(fs[w.path].content \o content, fs[w.path].mode)),
                 {w.path})
       ELSE FsOk(FsPut(fs, w.path, NFile(content, fs[w.path].mode)), {w.path})

\* os.chmod(p, mode)
os_chmod(fs, p, mode) ==
    LET w == KWalk(fs, <<>>, p, TRUE, MaxSymlinks)
    IN IF ~w.ok THEN FsErr(fs, w.err)
       ELSE IF w.path \notin DOMAIN fs THEN FsErr(fs, "ENOENT")
       ELSE FsOk(FsPut(fs, w.path, [fs[w.path] EXCEPT !.mode = mode]), {w.path})

\* utils.resolve_path(rootfs_path, relpath): the final real path of relpath
\* inside the root.  Links are followed as a process confined to the root
\* would follow them: an absolute target is taken from the root, and the
\* components that do not exist yet are kept as written.
RECURSIVE RWalk(_, _, _, _)
RWalk(fs, cur, rest, fuel) ==
    IF rest = <<>> THEN cur
    ELSE LET next == Append(cur, Head(rest))
         IN IF next \notin DOMAIN fs THEN next \o Tail(rest)
            ELSE IF fs[next].kind = "link" /\ fuel > 0
            THEN RWalk(fs, Root, fs[next].target \o Tail(rest), fuel - 1)
            ELSE RWalk(fs, next, Tail(rest), fuel)

resolve_path(fs, relpath) == RWalk(fs, Root, relpath, MaxSymlinks)

\* os.path.join(rootfs_path, relpath) for a relative relpath
path_join(root, relpath) == root \o relpath

\* os.path.dirname(p)
dirname(p) == IF p = <<>> THEN <<>> ELSE SubSeq(p, 1, Len(p) - 1)

\* ---------------------------------------------------------------- templates
\* A task's template: None (type "none"), a bare string (type "str") or a
\* dict (type "dict") with "template", "context", "file_mode" and "mode".
\* A body is a sequence of pieces: literal text (var = "") or a reference
\* {{ var }} (idx = -1) or {{ var[idx] }} (idx >= 0, counted from 0).
\* A missing "file_mode" is NoneV, a missing "mode" is 0 (Python tests both
\* for truth only).
Lit(t) == [lit |-> t, var |-> "", idx |-> -1]
Ref(v) == [lit |-> "", var |-> v, idx |-> -1]
RefAt(v, i) == [lit |-> "", var |-> v, idx |-> i]

TplNone == [type |-> "none", body |-> <<>>, context |-> <<>>, file_mode |-> NoneV, mode |-> 0]
TplStr(b) == [type |-> "str", body |-> b, context |-> <<>>, file_mode |-> NoneV, mode |-> 0]
TplDict(b, c, fm, m) == [type |-> "dict", body |-> b, context |-> c, file_mode |-> fm, mode |-> m]

\* A context binds names to lists of text atoms (a scalar is a list of one).
\* Whether the context binds what a piece refers to.
Bound(ctx, piece) ==
    \/ piece.var = ""
    \/ /\ DictHas(ctx, piece.var)
       /\ piece.idx >= 0 => piece.idx < Len(DictGet(ctx, piece.var))

PieceText(ctx, piece) ==
    IF piece.var = "" THEN <<piece.lit>>
    ELSE IF piece.idx >= 0 THEN <<DictGet(ctx, piece.var)[piece.idx + 1]>>
    ELSE DictGet(ctx, piece.var)

\* jinja2 with the default Undefined: an unbound reference prints as nothing
RECURSIVE jinja_render_lenient(_, _)
jinja_render_lenient(body, ctx) ==
    IF body = <<>> THEN [ok |-> TRUE, out |-> <<>>]
    ELSE LET rest == jinja_render_lenient(Tail(body), ctx)
         IN IF Bound(ctx, Head(body))
            THEN [ok |-> TRUE, out |-> PieceText(ctx, Head(body)) \o rest.out]
            ELSE rest

\* Template(template, ..., undefined=StrictUndefined).render(context):
\* the text, or UndefinedError (ok = FALSE) at the first unbound reference
RECURSIVE jinja_render(_, _)
jinja_render(body, ctx) ==
    IF body = <<>> THEN [ok |-> TRUE, out |-> <<>>]
    ELSE IF ~Bound(ctx, Head(body)) THEN [ok |-> FALSE, out |-> <<>>]
    ELSE LET rest == jinja_render(Tail(body), ctx)
         IN [ok |-> rest.ok,
             out |-> IF rest.ok THEN PieceText(ctx, Head(body)) \o rest.out ELSE <<>>]

\* ------------------------------------------------------------ DistroBuilder
\* An address record of the metadata: its literal, family (4 or 6), and the
\* public and management flags
Address(a, fam, pub, mgmt) ==
    [address |-> a, address_family |-> fam, public |-> pub, management |-> mgmt]

\* A .management that stops at the first address that is not one
RECURSIVE management_prefix(_)
management_prefix(l) ==
    IF l = <<>> \/ ~Head(l).management THEN <<>>
    ELSE <<Head(l)>> \o management_prefix(Tail(l))

\* utils.IPAddressList: each narrowing keeps the matching addresses in order
management(l) == SelectSeq(l, LAMBDA a : a.management)
public(l) == SelectSeq(l, LAMBDA a : a.public)
private(l) == SelectSeq(l, LAMBDA a : ~a.public)
ipv4(l) == SelectSeq(l, LAMBDA a : a.address_family = 4)
ipv6(l) == SelectSeq(l, LAMBDA a : a.address_family = 6)

\* .first: the first address, or the placeholder that prints as nothing
\* (here the empty list of text atoms)
first(l) == IF l = <<>> THEN <<>> ELSE <<l[1].address>>

\* An ipv4pub that does not narrow to the management addresses
ipv4pub_unmanaged(net) == ipv4(public(net.addresses))

\* DistroBuilder.ipv4pub, ipv6pub, ipv4priv
ipv4pub(net) == ipv4(public(management(net.addresses)))
ipv6pub(net) == ipv6(public(management(net.addresses)))
ipv4priv(net) == ipv4(private(management(net.addresses)))

\* A context that takes the resolvers the host had when the network was loaded
context_host_resolvers(md, net) ==
    << [k |-> "hostname", v |-> <<md.hostname>>],
       [k |-> "iface0", v |-> <<net.interfaces[1].name>>],
       [k |-> "interfaces", v |-> [i \in 1..Len(net.interfaces) |-> net.interfaces[i].name]],
       [k |-> "ip4priv", v |-> first(ipv4priv(net))],
       [k |-> "ip4pub", v |-> first(ipv4pub(net))],
       [k |-> "ip6pub", v |-> first(ipv6pub(net))],
       [k |-> "private_subnets", v |-> net.private_subnets],
       [k |-> "resolvers", v |-> <<"ns1", "ns2">>] >>

\* DistroBuilder.context(): the base context of a render pass
context(md, net) ==
    << [k |-> "hostname", v |-> <<md.hostname>>],
       [k |-> "iface0", v |-> <<net.interfaces[1].name>>],
       [k |-> "interfaces", v |-> [i \in 1..Len(net.interfaces) |-> net.interfaces[i].name]],
       [k |-> "ip4priv", v |-> first(ipv4priv(net))],
       [k |-> "ip4pub", v |-> first(ipv4pub(net))],
       [k |-> "ip6pub", v |-> first(ipv6pub(net))],
       [k |-> "private_subnets", v |-> net.private_subnets],
       [k |-> "resolvers", v |-> net.resolvers] >>

\* DistroBuilder.has_network_tasks; builders holds each network builder's tasks
has_network_tasks(builders) == \E i \in 1..Len(builders) : builders[i] # <<>>

\* DistroBuilder.all_tasks
RECURSIVE UpdateAll(_, _)
UpdateAll(acc, builders) ==
    IF builders = <<>> THEN acc
    ELSE UpdateAll(DictUpdate(acc, Head(builders)), Tail(builders))

\* An all_tasks that merges the distro builder's own tasks last
all_tasks_own_last(tasks, builders) == DictUpdate(UpdateAll(<<>>, builders), tasks)

all_tasks(tasks, builders) == UpdateAll(DictUpdate(<<>>, tasks), builders)

\* A rendered entry: None, the text, or {"file_mode", "mode", "content"}
RNone == [type |-> "none", content |-> <<>>, file_mode |-> NoneV, mode |-> 0]
RStr(c) == [type |-> "str", content |-> c, file_mode |-> NoneV, mode |-> 0]
RDict(c, fm, m) == [type |-> "dict", content |-> c, file_mode |-> fm, mode |-> m]

\* A task context in which the base context wins over the task's own entries
TaskContext_base_wins(tpl, md, net) ==
    IF tpl.type = "dict" THEN DictUpdate(tpl.context, context(md, net))
    ELSE context(md, net)

\* the context one task is rendered in: the base, updated by the task's own
TaskContext(tpl, md, net) ==
    IF tpl.type = "dict" THEN DictUpdate(context(md, net), tpl.context)
    ELSE context(md, net)

\* the body of render()'s loop for one task with a template; context() reads
\* network.interfaces[0] and raises IndexError when there is none
render_task(tpl, md, net) ==
    LET r == jinja_render(tpl.body, TaskContext(tpl, md, net))
    IN IF net.interfaces = <<>> THEN [err |-> "IndexError", entry |-> RNone]
       ELSE IF ~r.ok THEN [err |-> "UndefinedError", entry |-> RNone]
       ELSE IF tpl.type = "dict" /\ (tpl.file_mode # NoneV \/ tpl.mode # 0)
       THEN [err |-> "", entry |-> RDict(r.out, tpl.file_mode, tpl.mode)]
       ELSE [err |-> "", entry |-> RStr(r.out)]

\* A render() loop that leaves null tasks out of the mapping
RECURSIVE render_loop_dropping_null(_, _, _, _)
render_loop_dropping_null(todo, acc, md, net) ==
    IF todo = <<>> THEN [err |-> "", ret |-> acc, n |-> Len(acc)]
    ELSE IF Head(todo).v.type = "none"
    THEN render_loop_dropping_null(Tail(todo), acc, md, net)
    ELSE LET r == render_task(Head(todo).v, md, net)
         IN IF r.err # "" THEN [err |-> r.err, ret |-> <<>>, n |-> Len(acc)]
            ELSE render_loop_dropping_null(Tail(todo),
                     Append(acc, [k |-> Head(todo).k, v |-> r.entry]), md, net)

\* render()'s loop: stops at the first task that raises
RECURSIVE render_loop(_, _, _, _)
render_loop(todo, acc, md, net) ==
    IF todo = <<>> THEN [err |-> "", ret |-> acc, n |-> Len(acc)]
    ELSE IF Head(todo).v.type = "none"
    THEN render_loop(Tail(todo), Append(acc, [k |-> Head(todo).k, v |-> RNone]), md, net)
    ELSE LET r == render_task(Head(todo).v, md, net)
         IN IF r.err # "" THEN [err |-> r.err, ret |-> <<>>, n |-> Len(acc)]
            ELSE render_loop(Tail(todo), Append(acc, [k |-> Head(todo).k, v |-> r.entry]),
                             md, net)

\* A render() that raises on a DistroBuilder that was not built
render_unbuilt_raising(tasks, builders, md, net) ==
    IF builders = <<>> THEN [err |-> "AttributeError", ret |-> <<>>, n |-> 0]
    ELSE IF ~has_network_tasks(builders) THEN [err |-> "", ret |-> <<>>, n |-> 0]
    ELSE IF all_tasks(tasks, builders) = <<>> THEN [err |-> "", ret |-> <<>>, n |-> 0]
    ELSE render_loop(all_tasks(tasks, builders), <<>>, md, net)

\* A render() that raises when no network builder has tasks
render_raising(tasks, builders, md, net) ==
    IF ~has_network_tasks(builders) THEN [err |-> "LookupError", ret |-> <<>>, n |-> 0]
    ELSE render_loop(all_tasks(tasks, builders), <<>>, md, net)

\* DistroBuilder.render(): err is the exception raised ("" when none), ret the
\* mapping returned, n the number of tasks rendered before it ended
render(tasks, builders, md, net) ==
    IF ~has_network_tasks(builders) THEN [err |-> "", ret |-> <<>>, n |-> 0]
    ELSE IF all_tasks(tasks, builders) = <<>> THEN [err |-> "", ret |-> <<>>, n |-> 0]
    ELSE render_loop(all_tasks(tasks, builders), <<>>, md, net)

\* One task as run() processed it: what it did ("removed", "skipped",
\* "written" or "failed"), the real path of the entry it worked on, the real
\* paths it changed, the error it raised, and whether something is at
\* root/relpath right after it.
Step(relpath, act, entry, fs, touched, err) ==
    [path |-> relpath, act |-> act, entry |-> entry, touched |-> touched, err |-> err,
     present |-> lexists(fs, path_join(Root, relpath))]

\* the directory entry a path names, its last component not followed
EntryOf(fs, p) == KWalk(fs, <<>>, p, FALSE, MaxSymlinks).path

\* A removal that follows the link and unlinks what it points to
remove_task_following(fs, relpath) ==
    LET abspath == path_join(Root, relpath)
        real == KWalk(fs, <<>>, abspath, TRUE, MaxSymlinks).path
    IN IF lexists(fs, abspath)
       THEN LET rm == os_remove(fs, real)
            IN IF rm.err # ""
               THEN [fs |-> fs, step |-> Step(relpath, "failed", real, fs, {}, rm.err)]
               ELSE [fs |-> rm.fs,
                     step |-> Step(relpath, "removed", real, rm.fs, rm.touched, "")]
       ELSE [fs |-> fs, step |-> Step(relpath, "skipped", real, fs, {}, "")]

\* run()'s branch for a task whose content is None
remove_task(fs, relpath) ==
    LET abspath == path_join(Root, relpath)
        entry == EntryOf(fs, abspath)
    IN IF lexists(fs, abspath)
       THEN LET rm == os_remove(fs, abspath)
            IN IF rm.err # ""
               THEN [fs |-> fs, step |-> Step(relpath, "failed", entry, fs, {}, rm.err)]
               ELSE [fs |-> rm.fs,
                     step |-> Step(relpath, "removed", entry, rm.fs, rm.touched, "")]
       ELSE [fs |-> fs, step |-> Step(relpath, "skipped", entry, fs, {}, "")]

\* run()'s branch for a task with content: resolve, make the directory,
\* write, chmod.  An error of any call ends the task where it stands.
write_task(fs, relpath, entry) ==
    LET abspath == resolve_path(fs, relpath)
        file_mode == IF entry.type = "dict" /\ entry.file_mode # NoneV
                     THEN entry.file_mode ELSE "w"
        mode == IF entry.type = "dict" THEN entry.mode ELSE 0
        dn == dirname(abspath)
        mk == IF dn # <<>> /\ ~lexists(fs, dn) THEN os_makedirs(fs, dn) ELSE FsOk(fs, {})
        wr == open_write(mk.fs, abspath, file_mode, entry.content)
        ch == IF mode # 0 THEN os_chmod(wr.fs, abspath, mode) ELSE FsOk(wr.fs, {})
    IN IF mk.err # ""
       THEN [fs |-> mk.fs,
             step |-> Step(relpath, "failed", abspath, mk.fs, mk.touched, mk.err)]
       ELSE IF wr.err # ""
       THEN [fs |-> mk.fs,
             step |-> Step(relpath, "failed", abspath, mk.fs, mk.touched, wr.err)]
       ELSE IF ch.err # ""
       THEN [fs |-> wr.fs,
             step |-> Step(relpath, "failed", abspath, wr.fs,
                           mk.touched \cup wr.touched, ch.err)]
       ELSE [fs |-> ch.fs,
             step |-> Step(relpath, "written", abspath, ch.fs,
                           mk.touched \cup wr.touched \cup ch.touched, "")]

run_task(fs, relpath, entry) ==
    IF entry.type = "none" THEN remove_task(fs, relpath)
    ELSE write_task(fs, relpath, entry)

\* run()'s loop over the rendered tasks, in the mapping's order; an error
\* propagates at once and leaves the tasks after it unprocessed
RECURSIVE run_loop(_, _, _)
run_loop(fs, todo, steps) ==
    IF todo = <<>> THEN [fs |-> fs, steps |-> steps, err |-> ""]
    ELSE LET r == run_task(fs, Head(todo).k, Head(todo).v)
         IN IF r.step.err # ""
            THEN [fs |-> r.fs, steps |-> Append(steps, r.step), err |-> r.step.err]
            ELSE run_loop(r.fs, Tail(todo), Append(steps, r.step))

\* A run() that writes each task as soon as it is rendered
RECURSIVE run_eager_loop(_, _, _, _, _, _)
run_eager_loop(fs, todo, acc, steps, md, net) ==
    IF todo = <<>> THEN [err |-> "", ret |-> acc, fs |-> fs, steps |-> steps, rendered |-> Len(acc)]
    ELSE LET r == IF Head(todo).v.type = "none" THEN [err |-> "", entry |-> RNone]
                  ELSE render_task(Head(todo).v, md, net)
         IN IF r.err # ""
            THEN [err |-> r.err, ret |-> <<>>, fs |-> fs, steps |-> steps, rendered |-> Len(acc)]
            ELSE LET w == run_task(fs, Head(todo).k, r.entry)
                 IN IF w.step.err # ""
                    THEN [err |-> w.step.err, ret |-> <<>>, fs |-> w.fs,
                          steps |-> Append(steps, w.step), rendered |-> Len(acc) + 1]
                    ELSE run_eager_loop(w.fs, Tail(todo),
                                        Append(acc, [k |-> Head(todo).k, v |-> r.entry]),
                                        Append(steps, w.step), md, net)

run_eager(fs, tasks, builders, md, net) ==
    IF ~has_network_tasks(builders)
    THEN [err |-> "", ret |-> <<>>, fs |-> fs, steps |-> <<>>, rendered |-> 0]
    ELSE run_eager_loop(fs, all_tasks(tasks, builders), <<>>, <<>>, md, net)

\* DistroBuilder.run(rootfs_path): err is the exception raised, ret the mapping
\* returned, fs the filesystem it leaves, steps the tasks it processed and
\* rendered the number of tasks render() rendered
run(fs, tasks, builders, md, net) ==
    LET rendered_tasks == render(tasks, builders, md, net)
    IN IF rendered_tasks.err # ""
       THEN [err |-> rendered_tasks.err, ret |-> <<>>, fs |-> fs, steps |-> <<>>,
             rendered |-> rendered_tasks.n]
       ELSE IF rendered_tasks.ret = <<>>
       THEN [err |-> "", ret |-> <<>>, fs |-> fs, steps |-> <<>>, rendered |-> 0]
       ELSE LET w == run_loop(fs, rendered_tasks.ret, <<>>)
            IN [err |-> w.err, ret |-> IF w.err = "" THEN rendered_tasks.ret ELSE <<>>,
                fs |-> w.fs, steps |-> w.steps, rendered |-> rendered_tasks.n]

\* A build() that reports the network builders' tasks only
build_result_network_only(tasks, found_tasks) == [dict |-> <<>>, bool |-> found_tasks]

\* build()'s return value, `self.tasks or found_tasks`: the tasks mapping
\* when it is not empty, else the flag
build_result(tasks, found_tasks) ==
    IF tasks # <<>> THEN [dict |-> tasks, bool |-> FALSE]
    ELSE [dict |-> <<>>, bool |-> found_tasks]

\* Python's truth value of what build() returned
Truthy(ret) == ret.dict # <<>> \/ ret.bool

\* build()'s loop: whether a network builder instantiated by this call has tasks
found_tasks_of(nbs) == \E i \in 1..Len(nbs) : nbs[i] # <<>>

\* ------------------------------------------------------------- NetworkData
\* Text whose letter case matters (MAC addresses, distro names) is a pair
\* <<letters, upper>>: the letters, and whether some of them are upper case.
Lower(t) == <<t[1], FALSE>>

\* A metadata interface; bond is NoneV when the interface carries none
MetaIface(name, mac, bond) == [name |-> name, mac |-> mac, bond |-> bond]
PhysIface(name, mac) == [name |-> name, mac |-> mac]

\* utils.get_matched_interfaces(metadata_interfaces, physical_interfaces):
\* for each metadata interface in declared order, the physical interface with
\* the same MAC (letter case ignored), merged with it; unmatched ones dropped
RECURSIVE get_matched_interfaces(_, _)
get_matched_interfaces(mdifaces, physical) ==
    IF mdifaces = <<>> THEN <<>>
    ELSE LET m == Head(mdifaces)
             hits == {j \in 1..Len(physical) : Lower(physical[j].mac) = Lower(m.mac)}
             rest == get_matched_interfaces(Tail(mdifaces), physical)
         IN IF hits = {} THEN rest
            ELSE LET ph == physical[CHOOSE j \in hits : \A h \in hits : j <= h]
                 IN <<[name |-> ph.name, mac |-> Lower(m.mac), bond |-> m.bond,
                       meta_name |-> m.name]>> \o rest

\* the resolvers utils.resolvers() reads from the host when none are given
HostResolvers == <<"ns1", "ns2">>

\* NetworkData(default_private_subnets=["10.0.0.0/8"]) as Builder.__init__
\* makes it.  A list attribute that is None is the empty list here.
NewNetwork ==
    [nw_metadata |-> [interfaces |-> <<>>, addresses |-> <<>>, bonding |-> NoneV],
     bonding |-> NoneV,
     interfaces |-> <<>>,
     physical_interfaces |-> <<>>,
     bonds |-> <<>>,
     addresses |-> <<>>,
     resolvers |-> <<>>,
     private_subnets |-> <<"10.0.0.0/8">>]

\* NetworkData.build_bonding
build_bonding(net) ==
    [net EXCEPT !.bonding = IF net.nw_metadata.bonding = NoneV THEN "bonded"
                            ELSE net.nw_metadata.bonding]

\* An argument of an exception: a message, or a list of interfaces
ArgText(t) == [kind |-> "text", text |-> t, ifs |-> <<>>]
ArgInterfaces(kind, ifs) == [kind |-> kind, text |-> "", ifs |-> ifs]

\* A build_interfaces that lets an empty match through
build_interfaces_unchecked(net, physical) ==
    [err |-> "", args |-> <<>>,
     net |-> [net EXCEPT !.interfaces =
                             get_matched_interfaces(net.nw_metadata.interfaces, physical),
                         !.physical_interfaces = physical]]

\* A build_interfaces that takes an unmatched metadata interface for an error
build_interfaces_strict(net, physical) ==
    LET matched_ifaces == get_matched_interfaces(net.nw_metadata.interfaces, physical)
    IN IF Len(matched_ifaces) # Len(net.nw_metadata.interfaces) \/ matched_ifaces = <<>>
       THEN [err |-> "LookupError",
             args |-> <<ArgText("No interfaces matched ones provided from metadata")>>,
             net |-> [net EXCEPT !.interfaces = <<>>]]
       ELSE [err |-> "", args |-> <<>>,
             net |-> [net EXCEPT !.interfaces = matched_ifaces,
                                 !.physical_interfaces = physical]]

\* A build_interfaces that keeps the matches in the reverse of metadata order
build_interfaces_reversed(net, physical) ==
    LET matched_ifaces == get_matched_interfaces(net.nw_metadata.interfaces, physical)
        n == Len(matched_ifaces)
    IN IF matched_ifaces = <<>>
       THEN [err |-> "LookupError",
             args |-> <<ArgText("No interfaces matched ones provided from metadata")>>,
             net |-> [net EXCEPT !.interfaces = <<>>]]
       ELSE [err |-> "", args |-> <<>>,
             net |-> [net EXCEPT !.interfaces = [i \in 1..n |-> matched_ifaces[n + 1 - i]],
                                 !.physical_interfaces = physical]]

\* NetworkData.build_interfaces: err is the exception raised, args its arguments
build_interfaces(net, physical) ==
    LET matched_ifaces == get_matched_interfaces(net.nw_metadata.interfaces, physical)
    IN IF matched_ifaces = <<>>
       THEN [err |-> "LookupError",
             args |-> <<ArgText("No interfaces matched ones provided from metadata")>>,
             net |-> [net EXCEPT !.interfaces = <<>>]]
       ELSE [err |-> "", args |-> <<>>,
             net |-> [net EXCEPT !.interfaces = matched_ifaces,
                                 !.physical_interfaces = physical]]

\* A build_bonds that puts each interface at the front of its group
RECURSIVE bonds_of_prepending(_, _)
bonds_of_prepending(mdifaces, acc) ==
    IF mdifaces = <<>> THEN acc
    ELSE LET iface == Head(mdifaces)
         IN IF iface.bond # NoneV /\ iface.bond # ""
            THEN IF ~DictHas(acc, iface.bond)
                 THEN bonds_of_prepending(Tail(mdifaces), DictSet(acc, iface.bond, <<iface>>))
                 ELSE bonds_of_prepending(Tail(mdifaces),
                          DictSet(acc, iface.bond, <<iface>> \o DictGet(acc, iface.bond)))
            ELSE bonds_of_prepending(Tail(mdifaces), acc)

\* NetworkData.build_bonds: groups the metadata interfaces by bond label
RECURSIVE bonds_of(_, _)
bonds_of(mdifaces, acc) ==
    IF mdifaces = <<>> THEN acc
    ELSE LET iface == Head(mdifaces)
         IN IF iface.bond # NoneV /\ iface.bond # ""
            THEN IF ~DictHas(acc, iface.bond)
                 THEN bonds_of(Tail(mdifaces), DictSet(acc, iface.bond, <<iface>>))
                 ELSE bonds_of(Tail(mdifaces),
                               DictSet(acc, iface.bond, Append(DictGet(acc, iface.bond), iface)))
            ELSE bonds_of(Tail(mdifaces), acc)

build_bonds(net) == [net EXCEPT !.bonds = bonds_of(net.nw_metadata.interfaces, <<>>)]

\* NetworkData.build_addresses
build_addresses(net) == [net EXCEPT !.addresses = net.nw_metadata.addresses]

\* NetworkData.build_resolvers
build_resolvers(net) ==
    [net EXCEPT !.resolvers = IF net.resolvers = <<>> THEN HostResolvers ELSE net.resolvers]

\* NetworkData.load(nw_metadata): the builds in order; the first exception
\* leaves the attributes set so far
load(net, nw_metadata, physical) ==
    LET n1 == build_bonding([net EXCEPT !.nw_metadata = nw_metadata])
        r2 == build_interfaces(n1, physical)
    IN IF r2.err # "" THEN r2
       ELSE [err |-> "", args |-> <<>>,
             net |-> build_resolvers(build_addresses(build_bonds(r2.net)))]

\* ------------------------------------------------------------------ Builder
\* Builder.metadata: None (loaded = FALSE) or the document set_metadata stored.
\* operating_system.distro is None when distro.none.
NoMetadata ==
    [loaded |-> FALSE, hostname |-> "", distro |-> [none |-> TRUE, name |-> <<"", FALSE>>],
     private_subnets |-> [given |-> FALSE, val |-> <<>>],
     network |-> [interfaces |-> <<>>, addresses |-> <<>>, bonding |-> NoneV]]

DistroNone == [none |-> TRUE, name |-> <<"", FALSE>>]
DistroNamed(n, up) == [none |-> FALSE, name |-> <<n, up>>]

\* Builder.set_metadata(metadata): a document without "operating_system"
\* gets {"distro": None, "version": None}
set_metadata(doc) ==
    [loaded |-> TRUE, hostname |-> doc.hostname,
     distro |-> IF doc.has_os THEN doc.distro ELSE DistroNone,
     private_subnets |-> doc.private_subnets,
     network |-> doc.network]

\* A lookup that keeps the first catch-all it meets
RECURSIVE lookup_loop_first_catch_all(_, _, _, _)
lookup_loop_first_catch_all(registry, i, distro, catch_all) ==
    IF i > Len(registry)
    THEN [err |-> "", found |-> catch_all # 0, cls |-> catch_all]
    ELSE IF registry[i].distros.kind = "list"
    THEN IF distro.none THEN [err |-> "AttributeError", found |-> FALSE, cls |-> 0]
         ELSE IF Lower(distro.name) \in registry[i].distros.names
         THEN [err |-> "", found |-> TRUE, cls |-> i]
         ELSE lookup_loop_first_catch_all(registry, i + 1, distro, catch_all)
    ELSE IF registry[i].distros.kind = "star"
    THEN lookup_loop_first_catch_all(registry, i + 1, distro,
                                     IF catch_all = 0 THEN i ELSE catch_all)
    ELSE lookup_loop_first_catch_all(registry, i + 1, distro, catch_all)

\* A registered builder class: distros is a list (kind "list", names), "*"
\* (kind "star") or None (kind "none"); own and nbs are what build_tasks and
\* the network builders of the class produce.
\* get_distro_builder(distro) over DistroBuilder.__subclasses__() (registry):
\* err is the exception raised, found whether a class is returned, cls its index
RECURSIVE lookup_loop(_, _, _, _)
lookup_loop(registry, i, distro, catch_all) ==
    IF i > Len(registry)
    THEN [err |-> "", found |-> catch_all # 0, cls |-> catch_all]
    ELSE IF registry[i].distros.kind = "list"
    THEN IF distro.none THEN [err |-> "AttributeError", found |-> FALSE, cls |-> 0]
         ELSE IF Lower(distro.name) \in registry[i].distros.names
         THEN [err |-> "", found |-> TRUE, cls |-> i]
         ELSE lookup_loop(registry, i + 1, distro, catch_all)
    ELSE IF registry[i].distros.kind = "star"
    THEN lookup_loop(registry, i + 1, distro, i)
    ELSE lookup_loop(registry, i + 1, distro, catch_all)

get_distro_builder(registry, distro) == lookup_loop(registry, 1, distro, 0)

\* Builder.get_builder(distro)
get_builder(registry, distro) ==
    LET builder == get_distro_builder(registry, distro)
    IN IF builder.err # "" THEN builder
       ELSE IF ~builder.found THEN [err |-> "LookupError", found |-> FALSE, cls |-> 0]
       ELSE builder

\* An initialize() that does not clear the flag when it starts
initialize_keeping_flag(init, md, net, phys) ==
    IF ~md.loaded
    THEN [err |-> "Exception", net |-> net, initialized |-> init, hooked |-> FALSE]
    ELSE LET n0 == IF md.private_subnets.given
                   THEN [net EXCEPT !.private_subnets = md.private_subnets.val] ELSE net
             r == load(n0, md.network, phys)
         IN IF r.err # ""
            THEN [err |-> r.err, net |-> r.net, initialized |-> init, hooked |-> FALSE]
            ELSE [err |-> "", net |-> r.net, initialized |-> TRUE, hooked |-> TRUE]

\* An initialize() that sets the flag before it loads the network
initialize_flag_before_load(init, md, net, phys) ==
    IF ~md.loaded
    THEN [err |-> "Exception", net |-> net, initialized |-> FALSE, hooked |-> FALSE]
    ELSE LET n0 == IF md.private_subnets.given
                   THEN [net EXCEPT !.private_subnets = md.private_subnets.val] ELSE net
             r == load(n0, md.network, phys)
         IN IF r.err # ""
            THEN [err |-> r.err, net |-> r.net, initialized |-> TRUE, hooked |-> FALSE]
            ELSE [err |-> "", net |-> r.net, initialized |-> TRUE, hooked |-> TRUE]

\* Builder.initialize(): err is the exception raised, net the NetworkData and
\* initialized the flag it leaves, hooked whether the "initialized" hook ran
initialize(init, md, net, phys) ==
    IF ~md.loaded
    THEN [err |-> "Exception", net |-> net, initialized |-> FALSE, hooked |-> FALSE]
    ELSE LET n0 == IF md.private_subnets.given
                   THEN [net EXCEPT !.private_subnets = md.private_subnets.val] ELSE net
             r == load(n0, md.network, phys)
         IN IF r.err # ""
            THEN [err |-> r.err, net |-> r.net, initialized |-> FALSE, hooked |-> FALSE]
            ELSE [err |-> "", net |-> r.net, initialized |-> TRUE, hooked |-> TRUE]

\* what a Builder.run that did not reach the distro builder leaves
RunStopped(fs, e, looked) ==
    [err |-> e, ret |-> <<>>, fs |-> fs, steps |-> <<>>, rendered |-> 0,
     looked_up |-> looked, built |-> FALSE]

\* what a Builder.run that reached DistroBuilder.run leaves: r is what
\* builder.run(rootfs_path) did, and Builder.run returns what it returns
RunReached(r) ==
    [err |-> r.err, ret |-> r.ret, fs |-> r.fs, steps |-> r.steps,
     rendered |-> r.rendered, looked_up |-> TRUE, built |-> TRUE]

\* Builder.run once initialized, b being what get_builder found:
\* DistroBuilder(self), build() and run()
run_distro_builder(b, md, net, reg, fs) ==
    IF b.err # "" THEN RunStopped(fs, b.err, TRUE)
    ELSE RunReached(run(fs, reg[b.cls].own, reg[b.cls].nbs, md, net))

\* Builder.run(rootfs_path); looked_up and built tell how far it went
builder_run(init, md, net, reg, fs) ==
    IF ~init THEN RunStopped(fs, "Exception", FALSE)
    ELSE run_distro_builder(get_builder(reg, md.distro), md, net, reg, fs)

\* -------------------------------------------------------------------- state
VARIABLES
    metadata,      \* Builder.metadata
    initialized,   \* Builder.initialized
    network,       \* Builder.network, the NetworkData
    physical,      \* what utils.get_interfaces() finds on the host
    registry,      \* DistroBuilder.__subclasses__()
    own_def,       \* what build_tasks() of the DistroBuilder's class produces
    nb_defs,       \* what each class of network_builders produces, in order
    tasks,         \* DistroBuilder.tasks
    builders,      \* DistroBuilder.builders: each network builder's tasks
    nbuilds,       \* build() calls made on the DistroBuilder
    nruns,         \* run() calls made
    fs,            \* the host filesystem
    last,          \* the last call: what it returned, raised and did
    inited         \* how the latest initialize() ended: "never", "ok", "failed"

vars == <<metadata, initialized, network, physical, registry, own_def, nb_defs,
          tasks, builders, nbuilds, nruns, fs, last, inited>>

builder_vars == <<metadata, initialized, network, physical, registry, inited>>
distro_vars == <<own_def, nb_defs, tasks, builders, nbuilds, nruns>>
class_vars == <<own_def, nb_defs>>

\* the record of a call that did nothing
NoCall ==
    [op |-> "new", err |-> "", ret |-> <<>>, bret |-> [dict |-> <<>>, bool |-> FALSE],
     steps |-> <<>>, rendered |-> 0, fs0 |-> <<>>, again |-> FALSE,
     looked_up |-> FALSE, built |-> FALSE, hooked |-> FALSE, cls |-> 0,
     err_args |-> <<>>]

\* ------------------------------------------------------------------- inputs
OctalExec == 493
OctalPrivate == 384

TOk == TplStr(<<Lit("host="), Ref("hostname"), Lit(" ns="), RefAt("resolvers", 1)>>)
TBadIdx == TplStr(<<Lit("ns="), RefAt("resolvers", 2)>>)
TBadVar == TplStr(<<Lit("x="), Ref("nosuch")>>)
TAppend == TplDict(<<Lit("bonding")>>, <<>>, "a", 0)
TExec == TplDict(<<Lit("#!"), Ref("who")>>, <<[k |-> "who", v |-> <<"me">>]>>, NoneV, OctalExec)

Entries(paths, templates) == {[k |-> p, v |-> t] : p \in paths, t \in templates}

\* the dicts of at most n entries over a set of entries
DictsOver(entries, n) ==
    {d \in UNION {[1..m -> entries] : m \in 0..n} :
        \A i, j \in 1..Len(d) : i # j => d[i].k # d[j].k}

SeqsOver(S, n) == UNION {[1..m -> S] : m \in 0..n}

\* task composition scenarios: any split of tasks between the distro builder
\* and its network builders
ComposeEntries ==
    Entries({<<"f">>}, {TplNone, TOk, TBadIdx}) \cup Entries({<<"g">>}, {TOk, TBadVar, TExec})

\* filesystem scenarios: any order of tasks over files, links and directories
FsEntries ==
    Entries({<<"f">>}, {TplNone, TOk, TAppend, TExec})
        \cup Entries({<<"l">>, <<"d", "f">>}, {TplNone, TOk})
        \cup Entries({<<"d">>}, {TplNone})

\* outside the root: the directory /o with the file /o/f; inside: nothing yet
BaseFs ==
    [p \in {Root, <<"o">>, <<"o", "f">>} |->
        IF p = <<"o", "f">> THEN NFile(<<"secret">>, OctalPrivate) ELSE NDir]

RECURSIVE FsPutAll(_, _)
FsPutAll(f, puts) ==
    IF puts = <<>> THEN f ELSE FsPutAll(FsPut(f, Head(puts).k, Head(puts).v), Tail(puts))

\* what may lie under the root before a run: r/f a file or nothing; r/l
\* nothing, a link to f or a link to /o/f; r/d nothing, an empty directory,
\* a directory holding f, or a link to /o
FChoices == {<<>>, <<[k |-> <<"r", "f">>, v |-> NFile(<<"old">>, OctalPrivate)]>>}
LChoices == {<<>>, <<[k |-> <<"r", "l">>, v |-> NLink(FALSE, <<"f">>)]>>,
             <<[k |-> <<"r", "l">>, v |-> NLink(TRUE, <<"o", "f">>)]>>}
DChoices == {<<>>, <<[k |-> <<"r", "d">>, v |-> NDir]>>,
             <<[k |-> <<"r", "d">>, v |-> NDir],
               [k |-> <<"r", "d", "f">>, v |-> NFile(<<"old">>, OctalPrivate)]>>,
             <<[k |-> <<"r", "d">>, v |-> NLink(TRUE, <<"o">>)]>>}

Arrangements == {FsPutAll(BaseFs, a \o b \o c) : a \in FChoices, b \in LChoices, c \in DChoices}

\* the metadata and host of the DistroBuilder scenarios
MacA == <<"aa:00", FALSE>>
MacB == <<"aa:01", FALSE>>

Doc(hostname, has_os, distro, subnets, ifaces) ==
    [hostname |-> hostname, has_os |-> has_os, distro |-> distro,
     private_subnets |-> subnets,
     network |-> [interfaces |-> ifaces, addresses |-> <<>>, bonding |-> NoneV]]

NoSubnets == [given |-> FALSE, val |-> <<>>]

Doc0 == Doc("host0", TRUE, DistroNamed("ubuntu", FALSE), NoSubnets,
            <<MetaIface("eth0", MacA, "bond0"), MetaIface("eth1", MacB, "bond0")>>)

Physical0 == <<PhysIface("enp0", MacA), PhysIface("enp1", MacB)>>

\* ---------------------------------------------------- DistroBuilder actions
\* A DistroBuilder made for an initialized Builder: tasks = {}, builders = []
InitDistro ==
    /\ metadata = set_metadata(Doc0)
    /\ network = load(NewNetwork, Doc0.network, Physical0).net
    /\ initialized = TRUE
    /\ inited = "ok"
    /\ physical = Physical0
    /\ registry = <<>>
    /\ tasks = <<>>
    /\ builders = <<>>
    /\ nbuilds = 0
    /\ nruns = 0
    /\ last = NoCall

Init ==
    /\ InitDistro
    /\ \/ /\ fs = BaseFs
          /\ own_def \in DictsOver(ComposeEntries, 1)
          /\ nb_defs \in SeqsOver(DictsOver(ComposeEntries, 1), MaxNB)
       \/ /\ fs \in Arrangements
          /\ own_def = <<>>
          /\ nb_defs \in {<<d>> : d \in DictsOver(FsEntries, MaxFsTasks)}

\* DistroBuilder.build()
Build ==
    /\ nbuilds < MaxBuilds
    /\ tasks' = own_def
    /\ builders' = builders \o nb_defs
    /\ nbuilds' = nbuilds + 1
    /\ last' = [NoCall EXCEPT !.op = "build",
                              !.bret = build_result(own_def, found_tasks_of(nb_defs)),
                              !.built = TRUE]
    /\ UNCHANGED <<builder_vars, class_vars, nruns, fs>>

\* DistroBuilder.render()
Render ==
    /\ \E r \in {render(tasks, builders, metadata, network)} :
          last' = [NoCall EXCEPT !.op = "render", !.err = r.err, !.ret = r.ret,
                                 !.rendered = r.n]
    /\ UNCHANGED <<builder_vars, class_vars, tasks, builders, nbuilds, nruns, fs>>

\* DistroBuilder.run(rootfs_path) with rootfs_path = Root
Run ==
    /\ nruns < MaxRuns
    /\ \E r \in {run(fs, tasks, builders, metadata, network)} :
          /\ fs' = r.fs
          /\ last' = [NoCall EXCEPT !.op = "run", !.err = r.err, !.ret = r.ret,
                                    !.steps = r.steps, !.rendered = r.rendered,
                                    !.fs0 = fs,
                                    !.again = /\ last.op = "run" /\ last.err = ""
                                              /\ r.err = "" /\ r.ret # <<>>
                                              /\ last.ret = r.ret]
    /\ nruns' = nruns + 1
    /\ UNCHANGED <<builder_vars, class_vars, tasks, builders, nbuilds>>

Next == Build \/ Render \/ Run

Spec == Init /\ [][Next]_vars

\* ---------------------------------------------------------- Builder actions
MacC == <<"aa:02", FALSE>>
Upper(t) == <<t[1], TRUE>>

\* metadata documents: two, one or none of their interfaces are on the host
IfacesBoth == <<MetaIface("eth0", MacA, "bond0"), MetaIface("eth1", Upper(MacB), "bond0")>>
IfacesOne == <<MetaIface("eth0", MacC, "bond0"), MetaIface("eth1", MacB, NoneV)>>
IfacesNone == <<MetaIface("eth0", MacC, NoneV)>>

Subnets == {NoSubnets, [given |-> TRUE, val |-> <<"172.16.0.0/12">>]}

Docs ==
    {Doc("host1", TRUE, d, sn, ifs) :
        d \in {DistroNamed("ubuntu", FALSE), DistroNamed("fedora", FALSE)},
        sn \in Subnets, ifs \in {IfacesBoth, IfacesOne, IfacesNone}}
    \cup {Doc("host2", FALSE, DistroNone, NoSubnets, IfacesBoth)}

ClsDebian ==
    [distros |-> [kind |-> "list", names |-> {<<"ubuntu", FALSE>>, <<"debian", FALSE>>}],
     own |-> <<[k |-> <<"f">>, v |-> TOk]>>,
     nbs |-> << <<[k |-> <<"g">>, v |-> TExec]>>, <<>> >>]

ClsCatchAll ==
    [distros |-> [kind |-> "star", names |-> {}],
     own |-> <<>>,
     nbs |-> << <<[k |-> <<"f">>, v |-> TplNone], [k |-> <<"d", "f">>, v |-> TOk]>> >>]

Registries == {<<ClsDebian, ClsCatchAll>>, <<ClsCatchAll, ClsDebian>>, <<ClsDebian>>, <<>>}

\* Builder(): no metadata, not initialized, a fresh NetworkData
InitBuilder ==
    /\ metadata = NoMetadata
    /\ initialized = FALSE
    /\ inited = "never"
    /\ network = NewNetwork
    /\ physical \in {Physical0, <<PhysIface("enp1", MacB)>>}
    /\ registry \in Registries
    /\ own_def = <<>>
    /\ nb_defs = <<>>
    /\ tasks = <<>>
    /\ builders = <<>>
    /\ nbuilds = 0
    /\ nruns = 0
    /\ fs \in {BaseFs, FsPut(BaseFs, <<"r", "f">>, NFile(<<"old">>, OctalPrivate))}
    /\ last = NoCall

\* Builder.set_metadata(metadata)
SetMetadata ==
    /\ \E doc \in Docs : metadata' = set_metadata(doc)
    /\ last' = [NoCall EXCEPT !.op = "set_metadata"]
    /\ UNCHANGED <<initialized, inited, network, physical, registry, distro_vars, fs>>

\* Builder.initialize()
Initialize ==
    /\ \E r \in {initialize(initialized, metadata, network, physical)} :
          /\ initialized' = r.initialized
          /\ network' = r.net
          /\ inited' = IF r.err = "" THEN "ok" ELSE "failed"
          /\ last' = [NoCall EXCEPT !.op = "initialize", !.err = r.err, !.hooked = r.hooked]
    /\ UNCHANGED <<metadata, physical, registry, distro_vars, fs>>

\* Builder.run(rootfs_path) with rootfs_path = Root
BuilderRun ==
    /\ \E r \in {builder_run(initialized, metadata, network, registry, fs)} :
          /\ fs' = r.fs
          /\ last' = [NoCall EXCEPT !.op = "builder_run", !.err = r.err, !.ret = r.ret,
                                    !.steps = r.steps, !.rendered = r.rendered,
                                    !.fs0 = fs, !.looked_up = r.looked_up,
                                    !.built = r.built]
    /\ UNCHANGED <<builder_vars, distro_vars>>

NextBuilder == SetMetadata \/ Initialize \/ BuilderRun

SpecBuilder == InitBuilder /\ [][NextBuilder]_vars

\* ---------------------------------------------------------- registry lookup
MaxRegistry == 3

\* a subclass that declares a name with upper-case letters, and one that
\* keeps DistroBuilder's `distros = None`
ClsUpper ==
    [distros |-> [kind |-> "list", names |-> {<<"fedora", TRUE>>}],
     own |-> <<>>, nbs |-> <<>>]
ClsBare == [distros |-> [kind |-> "none", names |-> {}], own |-> <<>>, nbs |-> <<>>]

\* a second subclass with `distros = "*"`
ClsCatchAll2 ==
    [distros |-> [kind |-> "star", names |-> {}],
     own |-> <<[k |-> <<"f">>, v |-> TOk]>>, nbs |-> <<>>]

Classes == {ClsDebian, ClsCatchAll, ClsCatchAll2, ClsUpper, ClsBare}

\* DistroBuilder.__subclasses__(): the classes in the order they were defined
LookupRegistries ==
    UNION {{r \in [1..n -> Classes] : \A i, j \in 1..n : i # j => r[i] # r[j]} :
           n \in 0..MaxRegistry}

RequestedDistros ==
    {DistroNone} \cup {DistroNamed(n, up) : n \in {"ubuntu", "fedora", "suse"},
                                           up \in BOOLEAN}

\* a Builder with metadata set, before any lookup
InitLookup ==
    /\ \E d \in RequestedDistros :
          metadata = set_metadata(Doc("host1", ~d.none, d, NoSubnets, IfacesBoth))
    /\ registry \in LookupRegistries
    /\ initialized = FALSE
    /\ inited = "never"
    /\ network = NewNetwork
    /\ physical = Physical0
    /\ own_def = <<>>
    /\ nb_defs = <<>>
    /\ tasks = <<>>
    /\ builders = <<>>
    /\ nbuilds = 0
    /\ nruns = 0
    /\ fs = BaseFs
    /\ last = NoCall

\* get_distro_builder(metadata.operating_system.distro)
GetDistroBuilder ==
    /\ \E r \in {get_distro_builder(registry, metadata.distro)} :
          last' = [NoCall EXCEPT !.op = "get_distro_builder", !.err = r.err,
                                 !.looked_up = r.found, !.cls = r.cls]
    /\ UNCHANGED <<builder_vars, distro_vars, fs>>

\* Builder.get_builder(metadata.operating_system.distro)
GetBuilder ==
    /\ \E r \in {get_builder(registry, metadata.distro)} :
          last' = [NoCall EXCEPT !.op = "get_builder", !.err = r.err,
                                 !.looked_up = r.found, !.cls = r.cls]
    /\ UNCHANGED <<builder_vars, distro_vars, fs>>

NextLookup == GetDistroBuilder \/ GetBuilder

SpecLookup == InitLookup /\ [][NextLookup]_vars

\* ------------------------------------------------------------ NetworkData
MaxIfaces == 3
MaxPhys == 3

MetaNames == <<"eth0", "eth1", "eth2">>
MetaMacs == {MacA, Upper(MacB), MacC}
\* an interface's bond: missing or None, the empty string, a label
BondLabels == {NoneV, "", "bond0", "bond1"}

\* metadata interface lists: distinct MACs, any bond labels
MetaLists ==
    UNION {{[i \in 1..n |-> MetaIface(MetaNames[i], c[i][1], c[i][2])] :
              c \in {c \in [1..n -> MetaMacs \X BondLabels] :
                        \A i, j \in 1..n : i # j => Lower(c[i][1]) # Lower(c[j][1])}} :
           n \in 0..MaxIfaces}

\* the host's interface with a MAC: the kernel names it
PhysOf(mac) ==
    PhysIface(IF mac = MacA THEN "enp0" ELSE IF mac = MacB THEN "enp1" ELSE "enp2", mac)

\* utils.get_interfaces(): the host's interfaces in discovery order
PhysLists ==
    UNION {{[i \in 1..n |-> PhysOf(m[i])] :
              m \in {m \in [1..n -> {MacA, MacB, MacC}] :
                        \A i, j \in 1..n : i # j => m[i] # m[j]}} :
           n \in 0..MaxPhys}

\* whether load() has stored a nw_metadata: build_bonding sets bonding
\* right after it, and NetworkData() starts with both None
HasNwMetadata(net) == net.bonding # NoneV

\* a call of NetworkData.build_bonds() on its own
build_bonds_call(net) ==
    IF ~HasNwMetadata(net) THEN [err |-> "AttributeError", net |-> net]
    ELSE [err |-> "", net |-> build_bonds(net)]

\* a Builder with metadata set and a fresh NetworkData
InitNetwork ==
    /\ \E ifs \in MetaLists :
          metadata = set_metadata(Doc("host1", TRUE, DistroNamed("ubuntu", FALSE),
                                      NoSubnets, ifs))
    /\ physical \in PhysLists
    /\ network = NewNetwork
    /\ registry = <<>>
    /\ initialized = FALSE
    /\ inited = "never"
    /\ own_def = <<>>
    /\ nb_defs = <<>>
    /\ tasks = <<>>
    /\ builders = <<>>
    /\ nbuilds = 0
    /\ nruns = 0
    /\ fs = BaseFs
    /\ last = NoCall

\* network.load(metadata.network)
Load ==
    /\ \E r \in {load(network, metadata.network, physical)} :
          /\ network' = r.net
          /\ last' = [NoCall EXCEPT !.op = "load", !.err = r.err, !.err_args = r.args]
    /\ UNCHANGED <<metadata, initialized, inited, physical, registry, distro_vars, fs>>

\* network.build_bonds()
BuildBonds ==
    /\ \E r \in {build_bonds_call(network)} :
          /\ network' = r.net
          /\ last' = [NoCall EXCEPT !.op = "build_bonds", !.err = r.err]
    /\ UNCHANGED <<metadata, initialized, inited, physical, registry, distro_vars, fs>>

NextNetwork == Load \/ BuildBonds

SpecNetwork == InitNetwork /\ [][NextNetwork]_vars

\* ---------------------------------------------------------------- addresses
MaxAddrs == 3

AddrNames == <<"a1", "a2", "a3", "a4">>

\* the metadata's address lists: any families and flags
AddressLists ==
    UNION {{[i \in 1..n |-> Address(AddrNames[i], c[i][1], c[i][2], c[i][3])] :
              c \in [1..n -> {4, 6} \X BOOLEAN \X BOOLEAN]} :
           n \in 0..MaxAddrs}

\* a template that prints the three addresses of the context
TAddr ==
    TplStr(<<Lit("v4pub="), Ref("ip4pub"), Lit(" v4priv="), Ref("ip4priv"),
             Lit(" v6pub="), Ref("ip6pub")>>)

DocWithAddresses(addrs) == [Doc0 EXCEPT !.network.addresses = addrs]

\* a DistroBuilder over an initialized Builder whose metadata has addresses;
\* its own task and its network builder's task print them
InitContext ==
    /\ \E addrs \in AddressLists :
          /\ metadata = set_metadata(DocWithAddresses(addrs))
          /\ network = load(NewNetwork, DocWithAddresses(addrs).network, Physical0).net
    /\ initialized = TRUE
    /\ inited = "ok"
    /\ physical = Physical0
    /\ registry = <<>>
    /\ own_def = <<[k |-> <<"f">>, v |-> TAddr]>>
    /\ nb_defs = << <<[k |-> <<"g">>, v |-> TAddr]>> >>
    /\ tasks = <<>>
    /\ builders = <<>>
    /\ nbuilds = 0
    /\ nruns = 0
    /\ fs = BaseFs
    /\ last = NoCall

NextContext == Build \/ Render

SpecContext == InitContext /\ [][NextContext]_vars

\* ------------------------------------------------------- structured tasks
MaxTasks == 2

\* structured tasks: with context entries that replace hostname or resolvers
\* and add a name; with "mode": 0; with both an open mode and a mode
TOverride ==
    TplDict(<<Ref("hostname"), Lit(" ns="), RefAt("resolvers", 0), Lit(" by "), Ref("who")>>,
            <<[k |-> "hostname", v |-> <<"other">>], [k |-> "who", v |-> <<"me">>]>>,
            NoneV, 0)
TOverrideNs ==
    TplDict(<<Ref("hostname"), Lit(" ns="), RefAt("resolvers", 0)>>,
            <<[k |-> "resolvers", v |-> <<"ns7">>]>>, NoneV, 0)
TModeZero == TplDict(<<Lit("zero")>>, <<>>, NoneV, 0)
TBoth == TplDict(<<Lit("more")>>, <<>>, "a", OctalExec)

OwnEntries == Entries({<<"f">>}, {TplNone, TOk, TOverride, TModeZero})
NbEntries ==
    Entries({<<"f">>, <<"g">>}, {TplNone, TOk, TBadVar, TOverride, TOverrideNs, TAppend, TExec, TBoth})

\* a value a test assigns to network.resolvers
OtherResolvers == <<"ns9", "ns8">>

\* a DistroBuilder over an initialized Builder; the root is empty or holds f
InitTasks ==
    /\ InitDistro
    /\ fs \in {BaseFs, FsPut(BaseFs, <<"r", "f">>, NFile(<<"old">>, OctalPrivate))}
    /\ own_def \in DictsOver(OwnEntries, 1)
    /\ nb_defs \in {<<d>> : d \in DictsOver(NbEntries, MaxTasks)}

\* builder.network.resolvers = (...)
SetResolvers ==
    /\ network' = [network EXCEPT !.resolvers = OtherResolvers]
    /\ last' = [NoCall EXCEPT !.op = "set_resolvers"]
    /\ UNCHANGED <<metadata, initialized, inited, physical, registry, distro_vars, fs>>

NextTasks == Build \/ Render \/ Run \/ SetResolvers

SpecTasks == InitTasks /\ [][NextTasks]_vars

\* ------------------------------------------------------------------- claims
\* what the last call's render pass would do, in the state the call left
\* (render and run change neither the tasks nor the network)
RenderNow == render(tasks, builders, metadata, network)

\* the tasks render() would go through, in order
AllTasksNow == all_tasks(tasks, builders)

\* whether a template has a reference its task's context does not bind
HasUnbound(tpl) ==
    /\ tpl.type # "none"
    /\ \E i \in 1..Len(tpl.body) : ~Bound(TaskContext(tpl, metadata, network), tpl.body[i])

Absent == [kind |-> "none", content |-> <<>>, mode |-> 0, abs |-> FALSE, target |-> <<>>]
NodeAt(f, p) == IF p \in DOMAIN f THEN f[p] ELSE Absent

\* the file of a rendered task in filesystem f: the entry root/path names for a
\* null task, the destination of the write for the others
TaskFile(f, e) ==
    IF e.v.type = "none" THEN NodeAt(f, EntryOf(f, path_join(Root, e.k)))
    ELSE NodeAt(f, resolve_path(f, e.k))

\* C3: when a task's rendering fails during run(), run() raises that error,
\* returns no mapping, and the filesystem is what it was before the call: no
\* task was processed, those rendered before the failing one included.
C3_RenderFailureLeavesRootUnchanged ==
    (last.op = "run" /\ RenderNow.err # "") =>
        /\ last.err = RenderNow.err
        /\ last.ret = <<>>
        /\ last.steps = <<>>
        /\ fs = last.fs0

\* C3 witness: a run that failed in rendering after it had rendered a task
\* that would have written a file.
C3_Witness ==
    /\ last.op = "run"
    /\ last.err = "UndefinedError"
    /\ last.rendered >= 1
    /\ AllTasksNow[1].v.type # "none"

\* C4 (as claimed): a second run() of the same rendered task set leaves every
\* task's file with the content and permission mode the first run left.
C4_RunTwiceSameFiles ==
    (last.op = "run" /\ last.again) =>
        \A i \in 1..Len(last.ret) :
            TaskFile(fs, last.ret[i]) = TaskFile(last.fs0, last.ret[i])

\* C5 (as claimed): after a run() that raised nothing, nothing exists at
\* root/path for any task whose rendered content is null.
C5_NullTaskAbsentAfterRun ==
    (last.op = "run" /\ last.err = "") =>
        \A i \in 1..Len(last.ret) :
            last.ret[i].v.type = "none" => ~lexists(fs, path_join(Root, last.ret[i].k))

\* the rendered tasks of the last run(), whether or not it then raised
RanTasks == IF last.op = "run" /\ last.steps # <<>> THEN RenderNow.ret ELSE <<>>

\* C5 (amended): right after run() has processed a null task nothing exists
\* at root/path.  A file or link there is removed as the entry itself (a link
\* is unlinked, its target untouched); when nothing is there the task is
\* skipped without error, nothing changes and run() goes on to the next task;
\* only a directory there makes os.remove raise.  When run() returns,
\* something exists at root/path only if a later task of the same run
\* created it.
C5_NullTaskRemovesEntry ==
    \A i \in 1..Len(last.steps) :
        RanTasks[i].v.type = "none" =>
            LET st == last.steps[i]
                abspath == path_join(Root, st.path)
            IN /\ st.act \in {"removed", "skipped", "failed"}
               /\ st.act = "removed" => (~st.present /\ st.touched = {st.entry})
               /\ st.act = "skipped" =>
                      /\ ~st.present /\ st.touched = {} /\ st.err = ""
                      /\ i < Len(RanTasks) => Len(last.steps) > i
               /\ st.act = "failed" => (st.err = "EISDIR" /\ st.touched = {})
               /\ (i = 1 /\ ~lexists(last.fs0, abspath)) => st.act = "skipped"
               /\ (i = 1 /\ NodeAt(last.fs0, EntryOf(last.fs0, abspath)).kind
                                \in {"file", "link"}) => st.act = "removed"
               /\ (last.err = "" /\ lexists(fs, abspath)) =>
                      \E j \in (i + 1)..Len(last.steps) :
                          /\ last.steps[j].act = "written"
                          /\ EntryOf(fs, abspath) \in last.steps[j].touched

\* C5 witness: a run removed a symbolic link whose target is still in place,
\* and skipped another null task whose path held nothing.
C5_Witness ==
    /\ last.op = "run" /\ last.err = ""
    /\ \E i \in 1..Len(last.steps) :
           /\ last.steps[i].act = "removed"
           /\ NodeAt(last.fs0, last.steps[i].entry).kind = "link"
           /\ LinkDest(NodeAt(last.fs0, last.steps[i].entry)) \in DOMAIN fs
    /\ \E i \in 1..Len(last.steps) : last.steps[i].act = "skipped"

\* C6 (as claimed): every path run() writes, creates, chmods or removes lies
\* inside the root.
C6_RunStaysInsideRoot ==
    last.op = "run" =>
        \A i \in 1..Len(last.steps) : \A q \in last.steps[i].touched : IsPrefix(Root, q)

\* C7: with no tasks of its own and no network builder with tasks, render()
\* returns the empty mapping without raising, and run() returns the empty
\* mapping and leaves the filesystem as it was.
C7_NoTasksNoEffect ==
    (tasks = <<>> /\ \A i \in 1..Len(builders) : builders[i] = <<>>) =>
        /\ last.op = "render" => (last.err = "" /\ last.ret = <<>>)
        /\ last.op = "run" =>
               (last.err = "" /\ last.ret = <<>> /\ last.steps = <<>> /\ fs = last.fs0)

\* C7 witness: run() on a built DistroBuilder that has network builders,
\* none of them with a task, and no task of its own.
C7_Witness ==
    /\ last.op = "run"
    /\ nbuilds >= 1 /\ Len(builders) >= 1
    /\ tasks = <<>> /\ \A i \in 1..Len(builders) : builders[i] = <<>>

\* C8: build() returns a true value exactly when the distro builder's tasks
\* are not empty or a network builder this call instantiated has tasks.
C8_BuildTrueIffTasks ==
    last.op = "build" =>
        (Truthy(last.bret) <=>
            \/ tasks # <<>>
            \/ \E i \in 1..Len(builders) :
                   i > Len(builders) - Len(nb_defs) /\ builders[i] # <<>>)

\* C8 witness: build() returned a true value for a distro builder with tasks
\* whose network builders have none.
C8_Witness ==
    /\ last.op = "build"
    /\ tasks # <<>>
    /\ Len(builders) >= 1 /\ \A i \in 1..Len(builders) : builders[i] = <<>>
    /\ Truthy(last.bret)

\* the last network builder that defines path p, 0 when none does
LastDefining(p) ==
    IF \E i \in 1..Len(builders) : DictHas(builders[i], p)
    THEN CHOOSE i \in 1..Len(builders) :
             /\ DictHas(builders[i], p)
             /\ \A j \in 1..Len(builders) : DictHas(builders[j], p) => j <= i
    ELSE 0

\* C9: all_tasks holds exactly the paths of the distro builder's tasks and of
\* every network builder's tasks, each with the entry of the last network
\* builder that defines it, or the distro builder's entry when none does.
C9_AllTasksUnion ==
    /\ DictKeys(AllTasksNow) =
           DictKeys(tasks) \cup UNION {DictKeys(builders[i]) : i \in 1..Len(builders)}
    /\ \A i, j \in 1..Len(AllTasksNow) : i # j => AllTasksNow[i].k # AllTasksNow[j].k
    /\ \A p \in DictKeys(AllTasksNow) :
           DictGet(AllTasksNow, p) =
               IF LastDefining(p) = 0 THEN DictGet(tasks, p)
               ELSE DictGet(builders[LastDefining(p)], p)

\* C9 witness: a path defined by the distro builder and by two network
\* builders, with three different entries.
C9_Witness ==
    \E p \in DictKeys(tasks) : \E i, j \in 1..Len(builders) :
        /\ i < j /\ DictHas(builders[i], p) /\ DictHas(builders[j], p)
        /\ DictGet(builders[i], p) # DictGet(builders[j], p)
        /\ DictGet(tasks, p) # DictGet(builders[j], p)
        /\ DictGet(tasks, p) # DictGet(builders[i], p)

C2_InitializedHasInterfaces ==
    /\ initialized => Len(network.interfaces) >= 1
    /\ (/\ last.op = "initialize" /\ metadata.loaded
        /\ get_matched_interfaces(metadata.network.interfaces, physical) = <<>>) =>
           (last.err = "LookupError" /\ ~initialized)

\* C2 witness: initialize() raised on a total mismatch, on a NetworkData that
\* an earlier initialize() had loaded.
C2_Witness ==
    /\ last.op = "initialize" /\ last.err = "LookupError"
    /\ ~initialized
    /\ network.bonds # <<>>

\* whether a registered class declares the distro name, letter case ignored
Declares(cls, distro) ==
    /\ cls.distros.kind = "list"
    /\ ~distro.none
    /\ \E n \in cls.distros.names : Lower(n) = Lower(distro.name)

IsCatchAll(cls) == cls.distros.kind = "star"

\* no registered class declares the distro and none is a catch-all
NoBuilderFor(reg, distro) ==
    \A i \in 1..Len(reg) : ~Declares(reg[i], distro) /\ ~IsCatchAll(reg[i])

\* C11: when no registered builder declares the requested distro and there is
\* no catch-all, get_builder raises LookupError, for every distro value
\* including None, and Builder.run propagates it without building,
\* rendering or writing anything.
C11_NoBuilderIsLookupError ==
    /\ (last.op = "get_builder" /\ NoBuilderFor(registry, metadata.distro)) =>
          last.err = "LookupError"
    /\ (last.op = "builder_run" /\ initialized
        /\ NoBuilderFor(registry, metadata.distro)) =>
          (/\ last.err = "LookupError"
           /\ ~last.built /\ last.rendered = 0 /\ last.steps = <<>>
           /\ fs = last.fs0)

\* C12: in any registration order, the lookup returns a class that declares
\* the requested name whenever one is registered, and the catch-all only when
\* none declares it.
C12_SpecificBeforeCatchAll ==
    (last.op = "get_distro_builder" /\ ~metadata.distro.none) =>
        /\ (\E i \in 1..Len(registry) : Declares(registry[i], metadata.distro)) =>
              (/\ last.err = "" /\ last.cls # 0
               /\ Declares(registry[last.cls], metadata.distro))
        /\ (last.err = "" /\ last.cls # 0 /\ IsCatchAll(registry[last.cls])) =>
              (\A i \in 1..Len(registry) : ~Declares(registry[i], metadata.distro))

\* C13: the lookup selects a class whose declared list holds a name equal to
\* the requested one when letter case is ignored, whatever the letter case of
\* the requested name and of the declared names.
C13_CaseInsensitiveMatch ==
    (/\ last.op = "get_distro_builder" /\ ~metadata.distro.none
     /\ \E i \in 1..Len(registry) : Declares(registry[i], metadata.distro)) =>
        (/\ last.err = "" /\ last.cls # 0
         /\ Declares(registry[last.cls], metadata.distro))

\* the MACs of a list of interfaces, in lower case
Macs(ifs) == [i \in 1..Len(ifs) |-> Lower(ifs[i].mac)]

\* whether s is t with some elements left out, the order kept
RECURSIVE IsSubsequence(_, _)
IsSubsequence(s, t) ==
    IF s = <<>> THEN TRUE
    ELSE IF t = <<>> THEN FALSE
    ELSE IF Head(s) = Head(t) THEN IsSubsequence(Tail(s), Tail(t))
    ELSE IsSubsequence(s, Tail(t))

\* C14: after a successful load, the members of every bond are interfaces of
\* network.interfaces, in the same relative order: none is an interface that
\* matched no physical interface.
C14_BondMembersAreReconciled ==
    (last.op = "load" /\ last.err = "") =>
        \A b \in 1..Len(network.bonds) :
            IsSubsequence(Macs(network.bonds[b].v), Macs(network.interfaces))

\* the interfaces of a list that carry a bond label
Labelled(ifs, label) == SelectSeq(ifs, LAMBDA x : x.bond = label)

\* the bond labels of a list of interfaces: None and the empty string are none
LabelsOf(ifs) == {ifs[i].bond : i \in 1..Len(ifs)} \ {NoneV, ""}

\* C15: after build_bonds, bonds has one group for each bond label carried by
\* a metadata interface and no other; a group lists exactly the metadata
\* interfaces with its label, in metadata order; interfaces without a label
\* or with an empty one are in no group, and no group is empty.
C15_BondsGroupByLabel ==
    (last.op \in {"build_bonds", "load"} /\ last.err = "") =>
        LET ifs == network.nw_metadata.interfaces
        IN /\ {network.bonds[b].k : b \in 1..Len(network.bonds)} = LabelsOf(ifs)
           /\ Len(network.bonds) = Cardinality(LabelsOf(ifs))
           /\ \A b \in 1..Len(network.bonds) :
                 /\ network.bonds[b].v = Labelled(ifs, network.bonds[b].k)
                 /\ network.bonds[b].v # <<>>

\* C15 witness: build_bonds ran over metadata with two interfaces in one
\* bond and one interface whose label is empty.
C15_Witness ==
    /\ last.op = "build_bonds" /\ last.err = ""
    /\ \E b \in 1..Len(network.bonds) : Len(network.bonds[b].v) = 2
    /\ \E i \in 1..Len(network.nw_metadata.interfaces) :
          network.nw_metadata.interfaces[i].bond = ""

\* the MACs of the host's interfaces
PhysMacs == {Lower(physical[j].mac) : j \in 1..Len(physical)}

\* the metadata interfaces that are on the host, in metadata order
OnHost(ifs) == SelectSeq(ifs, LAMBDA x : Lower(x.mac) \in PhysMacs)

\* the name the host gives the interface with a MAC
HostName(mac) == physical[CHOOSE j \in 1..Len(physical) : Lower(physical[j].mac) = mac].name

\* C16: when some but not all metadata interfaces match a physical interface,
\* load completes and network.interfaces holds exactly the matched ones in
\* metadata order, under their host names; load fails only when none matches.
C16_PartialMatchLoads ==
    last.op = "load" =>
        LET ifs == metadata.network.interfaces
        IN /\ (last.err # "") <=> (OnHost(ifs) = <<>>)
           /\ (OnHost(ifs) # <<>> /\ Len(OnHost(ifs)) < Len(ifs)) =>
                 /\ last.err = ""
                 /\ Macs(network.interfaces) = Macs(OnHost(ifs))
                 /\ \A i \in 1..Len(network.interfaces) :
                       network.interfaces[i].name = HostName(network.interfaces[i].mac)

\* C16 witness: a load over three metadata interfaces, the first of which is
\* not on the host.
C16_Witness ==
    /\ last.op = "load" /\ last.err = ""
    /\ Len(metadata.network.interfaces) = 3
    /\ Len(network.interfaces) = 2
    /\ Lower(metadata.network.interfaces[1].mac) \notin PhysMacs

\* C17: when the metadata interfaces (at least one) and the physical
\* interfaces have the same MACs, letter case ignored, then in any discovery
\* order network.interfaces has one element for each metadata interface and
\* its i-th element carries the MAC of the i-th metadata interface.
C17_MetadataOrderKept ==
    LET ifs == metadata.network.interfaces
    IN (/\ last.op = "load" /\ ifs # <<>>
        /\ {Lower(ifs[i].mac) : i \in 1..Len(ifs)} = PhysMacs) =>
           /\ last.err = ""
           /\ Len(network.interfaces) = Len(ifs)
           /\ \A i \in 1..Len(ifs) : Lower(network.interfaces[i].mac) = Lower(ifs[i].mac)

\* C17 witness: three interfaces discovered in the reverse of metadata order.
C17_Witness ==
    /\ last.op = "load" /\ last.err = ""
    /\ Len(metadata.network.interfaces) = 3 /\ Len(physical) = 3
    /\ \A i \in 1..3 : Lower(metadata.network.interfaces[i].mac) = Lower(physical[4 - i].mac)

\* C18: when no interface matches, the error load raises carries the
\* metadata interface list and the physical interface list.
C18_ErrorCarriesLists ==
    (last.op = "load" /\ last.err = "LookupError") =>
        /\ \E i \in 1..Len(last.err_args) :
              /\ last.err_args[i].kind = "metadata_interfaces"
              /\ last.err_args[i].ifs = metadata.network.interfaces
        /\ \E i \in 1..Len(last.err_args) :
              /\ last.err_args[i].kind = "physical_interfaces"
              /\ last.err_args[i].ifs = physical

\* C19: after every successful initialize, in any sequence of set_metadata
\* and initialize calls, network.private_subnets is the current metadata's
\* private_subnets when the metadata has one, and ["10.0.0.0/8"] otherwise.
C19_PrivateSubnetsFollowMetadata ==
    (last.op = "initialize" /\ last.err = "") =>
        network.private_subnets =
            IF metadata.private_subnets.given THEN metadata.private_subnets.val
            ELSE NewNetwork.private_subnets

\* what TAddr prints when the three addresses are these lists of text
AddrPrint(v4pub, v4priv, v6pub) ==
    <<"v4pub=">> \o v4pub \o <<" v4priv=">> \o v4priv \o <<" v6pub=">> \o v6pub

\* the literal of the first address of the list with the family and the
\* public flag (among the management addresses when mgmt), nothing when
\* there is none
FirstWith(l, fam, pub, mgmt) ==
    LET m == SelectSeq(l, LAMBDA a : /\ a.address_family = fam /\ a.public = pub
                                      /\ (mgmt => a.management))
    IN IF m = <<>> THEN <<>> ELSE <<m[1].address>>

\* C20 as stated: in every render pass ip4pub, ip4priv and ip6pub are the
\* first public IPv4, private IPv4 and public IPv6 address of the network's
\* address list, and the absent placeholder when there is none.
C20_FirstAddresses ==
    (last.op = "render" /\ last.err = "" /\ last.ret # <<>>) =>
        \A i \in 1..Len(last.ret) :
            last.ret[i].v.content =
                AddrPrint(FirstWith(network.addresses, 4, TRUE, FALSE),
                          FirstWith(network.addresses, 4, FALSE, FALSE),
                          FirstWith(network.addresses, 6, TRUE, FALSE))

\* C20 (amended): in every render pass ip4pub, ip4priv and ip6pub are the
\* first public IPv4, private IPv4 and public IPv6 address among the
\* management addresses of the network's address list, in metadata order;
\* each is the absent placeholder when no management address is of that kind,
\* whatever other addresses the list holds.
C20_FirstManagementAddresses ==
    /\ (last.op = "render" /\ last.err = "" /\ last.ret # <<>>) =>
          \A i \in 1..Len(last.ret) :
              last.ret[i].v.content =
                  AddrPrint(FirstWith(network.addresses, 4, TRUE, TRUE),
                            FirstWith(network.addresses, 4, FALSE, TRUE),
                            FirstWith(network.addresses, 6, TRUE, TRUE))
    /\ DictGet(context(metadata, network), "ip4pub") =
          FirstWith(network.addresses, 4, TRUE, TRUE)
    /\ DictGet(context(metadata, network), "ip4priv") =
          FirstWith(network.addresses, 4, FALSE, TRUE)
    /\ DictGet(context(metadata, network), "ip6pub") =
          FirstWith(network.addresses, 6, TRUE, TRUE)

\* C20 witness: a render pass over a list whose first public IPv4 address is
\* not a management address and whose later one is, with no public IPv6
\* management address.
C20_Witness ==
    /\ last.op = "render" /\ last.err = "" /\ Len(last.ret) = 2
    /\ Len(network.addresses) >= 2
    /\ network.addresses[1].address_family = 4 /\ network.addresses[1].public
    /\ ~network.addresses[1].management
    /\ network.addresses[2].address_family = 4 /\ network.addresses[2].public
    /\ network.addresses[2].management
    /\ FirstWith(network.addresses, 6, TRUE, TRUE) = <<>>

\* whether narrowing l by management, P and F gives one result in all six
\* orders of application, its addresses in the order they have in l
OrderFree(P(_), F(_), l) ==
    LET r == F(P(management(l)))
    IN /\ P(F(management(l))) = r
       /\ F(management(P(l))) = r
       /\ management(F(P(l))) = r
       /\ P(management(F(l))) = r
       /\ management(P(F(l))) = r
       /\ IsSubsequence(r, l)

\* C21: narrowing an address collection by management, public or private,
\* and ipv4 or ipv6 gives the same ordered result in whatever order the
\* predicates are applied, and the result keeps the order of the collection.
C21_NarrowingCommutes ==
    /\ OrderFree(public, ipv4, network.addresses)
    /\ OrderFree(public, ipv6, network.addresses)
    /\ OrderFree(private, ipv4, network.addresses)
    /\ OrderFree(private, ipv6, network.addresses)

\* C21 witness: a render pass narrowed a collection of three addresses in
\* which a non-management address stands between two public IPv4 management
\* addresses.
C21_Witness ==
    /\ last.op = "render" /\ last.err = ""
    /\ Len(network.addresses) = 3
    /\ ~network.addresses[2].management
    /\ Len(ipv4(public(management(network.addresses)))) = 2

\* the definition of a path in all_tasks, as of the current state
DefOf(path) == DictGet(AllTasksNow, path)

\* what a name of a template stands for: the task's own entry when it has
\* one, else the base value read from the metadata and the network now
ValueOf(tpl, var) ==
    IF tpl.type = "dict" /\ DictHas(tpl.context, var) THEN DictGet(tpl.context, var)
    ELSE IF var = "hostname" THEN <<metadata.hostname>>
    ELSE IF var = "resolvers" THEN network.resolvers
    ELSE <<>>

\* the text a template prints under ValueOf
RECURSIVE ExpectedOut(_, _)
ExpectedOut(body, tpl) ==
    IF body = <<>> THEN <<>>
    ELSE LET piece == Head(body)
             here == IF piece.var = "" THEN <<piece.lit>>
                     ELSE IF piece.idx >= 0 THEN <<ValueOf(tpl, piece.var)[piece.idx + 1]>>
                     ELSE ValueOf(tpl, piece.var)
         IN here \o ExpectedOut(Tail(body), tpl)

\* C22: a structured task with context entries is rendered in the base
\* context with each of those entries in place of the base value of its name
\* (hostname, resolvers) or added to it; the names it does not give keep
\* their base values.
C22_TaskContextOverrides ==
    (last.op = "render" /\ last.err = "") =>
        \A i \in 1..Len(last.ret) :
            LET tpl == DefOf(last.ret[i].k)
            IN (tpl.type = "dict" /\ tpl.context # <<>>) =>
                  /\ last.ret[i].v.content = ExpectedOut(tpl.body, tpl)
                  /\ \A e \in 1..Len(tpl.context) :
                        DictGet(TaskContext(tpl, metadata, network), tpl.context[e].k)
                            = tpl.context[e].v
                  /\ \A b \in 1..Len(context(metadata, network)) :
                        LET key == context(metadata, network)[b].k
                        IN ~DictHas(tpl.context, key) =>
                              DictGet(TaskContext(tpl, metadata, network), key)
                                  = context(metadata, network)[b].v

\* C22 witness: a render pass with a task that replaces hostname and adds a
\* name, next to a task without context entries.
C22_Witness ==
    /\ last.op = "render" /\ last.err = "" /\ Len(last.ret) = 2
    /\ \E i \in 1..2 : DefOf(last.ret[i].k) = TOverride
    /\ \E i \in 1..2 : DefOf(last.ret[i].k) = TOk

\* whether a structured task gives an open mode or a permission mode;
\* TModeZero is the task {"template": ..., "mode": 0}
Specifies(tpl) ==
    /\ tpl.type = "dict"
    /\ (tpl.file_mode # NoneV \/ tpl.mode # 0 \/ tpl = TModeZero)

\* the file a task wrote, and what was there before the run
Written(f, path) == NodeAt(f, resolve_path(f, path))

\* C23: for a structured task that gives a permission mode or an open mode,
\* render carries both into the rendered entry, run opens the destination
\* with the open mode ("w" when none is given) and leaves the file with the
\* permission mode; a bare string replaces the whole file and leaves its
\* permission mode as it was.
C23_ModesApplied ==
    (last.op = "run" /\ last.err = "" /\ last.ret # <<>>) =>
        \A i \in 1..Len(last.ret) :
            LET path == last.ret[i].k
                tpl == DefOf(path)
                entry == last.ret[i].v
                old == Written(last.fs0, path)
                new == Written(fs, path)
            IN /\ Specifies(tpl) =>
                     /\ entry.type = "dict"
                     /\ entry.file_mode = tpl.file_mode /\ entry.mode = tpl.mode
                     /\ new.content = IF tpl.file_mode = "a"
                                      THEN old.content \o entry.content
                                      ELSE entry.content
                     /\ (tpl.mode # 0 \/ tpl = TModeZero) => new.mode = tpl.mode
               /\ tpl.type = "str" =>
                     /\ new.content = entry.content
                     /\ new.mode = IF old.kind = "file" THEN old.mode ELSE DefaultMode

\* whether build() returned a true value for the tasks the builders hold now
BuiltTrue == nbuilds >= 1 /\ Truthy(build_result(tasks, found_tasks_of(builders)))

\* whether every template of all_tasks renders without error
AllRender == render_loop(AllTasksNow, <<>>, metadata, network).err = ""

\* what C24 says of a render() that returned: a non-empty mapping over the
\* paths of all_tasks, with null tasks mapped to null
FullMapping ==
    /\ last.err = "" /\ last.ret # <<>>
    /\ DictKeys(last.ret) = DictKeys(AllTasksNow)
    /\ \A i \in 1..Len(last.ret) :
           DefOf(last.ret[i].k).type = "none" <=> last.ret[i].v = RNone

C25_RenderReadsResolversNow ==
    (last.op = "render" /\ last.err = "") =>
        \A i \in 1..Len(last.ret) :
            LET tpl == DefOf(last.ret[i].k)
            IN tpl.type # "none" => last.ret[i].v.content = ExpectedOut(tpl.body, tpl)

\* C25 witness: a render pass after network.resolvers was reassigned, over
\* a task of the distro builder and one of its network builder that print
\* resolvers.
C25_Witness ==
    /\ last.op = "render" /\ last.err = "" /\ Len(last.ret) = 2
    /\ network.resolvers = OtherResolvers
    /\ nbuilds >= 1
    /\ DictHas(tasks, <<"f">>) /\ DictGet(tasks, <<"f">>) = TOk
    /\ DictHas(builders[1], <<"g">>) /\ DictGet(builders[1], <<"g">>) = TOk

\* C26: whenever Builder.run goes past its initialized check, the network
\* model it hands to the distro builder was loaded from the metadata set on
\* the Builder now, the one whose operating_system selects the distro builder.
C26_RunUsesCurrentMetadata ==
    (last.op = "builder_run" /\ last.looked_up) =>
        network.nw_metadata = metadata.network

\* C27: an initialize() that raises, for missing metadata or because no
\* metadata interface is on the host, leaves Builder.initialized false and
\* does not trigger the 'initialized' hook, also after an earlier initialize()
\* that succeeded; a run() called next is rejected at its initialized check.
C27_FailedInitializeClearsFlag ==
    /\ (last.op = "initialize" /\ ~metadata.loaded) => last.err = "Exception"
    /\ (/\ last.op = "initialize" /\ metadata.loaded
        /\ get_matched_interfaces(metadata.network.interfaces, physical) = <<>>) =>
           last.err = "LookupError"
    /\ (last.op = "initialize" /\ last.err # "") =>
           /\ ~initialized
           /\ ~last.hooked
           /\ builder_run(initialized, metadata, network, registry, fs)
                  = RunStopped(fs, "Exception", FALSE)

\* C27 witness: initialize() raised for a total mismatch after an earlier
\* initialize() had succeeded (its bonds are still on the NetworkData), on a
\* Builder whose registry has a builder for the distro.
C27_Witness ==
    /\ last.op = "initialize" /\ last.err = "LookupError"
    /\ network.bonds # <<>> /\ network.interfaces = <<>>
    /\ get_builder(registry, metadata.distro).err = ""
    /\ ~initialized /\ ~last.hooked

\* C28: before build(), render() returns the empty mapping, and run() returns
\* the empty mapping and leaves the filesystem as it was, whatever tasks the
\* distro builder and its network builders produce once built.
C28_NothingBeforeBuild ==
    nbuilds = 0 =>
        /\ last.op = "render" => (last.err = "" /\ last.ret = <<>> /\ last.rendered = 0)
        /\ last.op = "run" =>
               (last.err = "" /\ last.ret = <<>> /\ last.steps = <<>> /\ fs = last.fs0)

\* C28 witness: run() before build() on a DistroBuilder whose class and
\* network builder both produce tasks, over a root that has a file.
C28_Witness ==
    /\ last.op = "run" /\ nbuilds = 0
    /\ own_def # <<>> /\ Len(nb_defs) = 1 /\ Len(nb_defs[1]) = 2
    /\ lexists(fs, <<"r", "f">>)

\* the positions of the catch-all classes in a registry
CatchAlls(reg) == {i \in 1..Len(reg) : IsCatchAll(reg[i])}

\* C29: when several catch-all builders are registered and no registered
\* builder declares the requested distro name, get_distro_builder returns the
\* catch-all registered last.
C29_LastCatchAllWins ==
    (/\ last.op = "get_distro_builder" /\ ~metadata.distro.none
     /\ Cardinality(CatchAlls(registry)) >= 2
     /\ \A i \in 1..Len(registry) : ~Declares(registry[i], metadata.distro)) =>
        /\ last.err = "" /\ last.looked_up
        /\ last.cls \in CatchAlls(registry)
        /\ \A i \in CatchAlls(registry) : i <= last.cls

\* C29 witness: a lookup of "suse" over two catch-alls with a class between
\* them that declares other names.
C29_Witness ==
    /\ last.op = "get_distro_builder"
    /\ metadata.distro = DistroNamed("suse", TRUE)
    /\ Len(registry) = 3
    /\ IsCatchAll(registry[1]) /\ registry[2] = ClsDebian /\ IsCatchAll(registry[3])
    /\ last.cls = 3

====
